---- MODULE Spec2Model ----
(***************************************************************************)
(* The block-stacking engine (GameEngine) as a state machine.              *)
(*                                                                         *)
(* Numbers.  The engine computes in floating point; the model computes in  *)
(* exact arithmetic on scaled integers, so rounding error is not modelled. *)
(*   horizontal lengths (x, z, width, depth) : 1 world unit = H            *)
(*   vertical lengths and speeds (y, vy)     : 1 world unit = V            *)
(*   particle life                           : 1.0          = V            *)
(* H is fine enough for every halving (shift = delta / 2) and every        *)
(* delta * 0.3 that MaxTrimLevel + 1 trimmed placements can produce.        *)
(*                                                                         *)
(* Not tracked: colours, camera, sound, rotation, and the position and     *)
(* velocity of particles (only their life).                                *)
(***************************************************************************)
EXTENDS Integers, Sequences, FiniteSets, TLC

(* ------------------------------ bounds -------------------------------- *)
\* most blocks the tower may hold before the player stops tapping
MaxTower == 6
\* the player trims (places successfully, not perfectly) only while the tower
\* holds at most MaxTrimLevel blocks
MaxTrimLevel == 1
\* most ticks the player lets one moving block oscillate
MaxTicks == 170
\* taps that are not perfect are sampled every TapEvery ticks after a spawn
TapEvery == 35
\* taps that miss are sampled every MissEvery * TapEvery ticks after a spawn
MissEvery == 2
\* the tolerance function is evaluated at the scores 0..MaxProbeScore and at
\* the offsets -MaxProbeDelta..MaxProbeDelta, in steps of 0.005 world units
MaxProbeScore == 30
MaxProbeDelta == 140

(* -------------------------- program constants -------------------------- *)
defaultBlockSize == 3
blockHeight == 1
difficultyRamp == 15
comboThreshold == 3
spawnDist == 12
particleCount == 20
oscillationLimit == 13
\* GAME_CONFIG.initialErrorTolerance = 0.6 and errorTolerance = 0.2, in tenths
initialErrorTolerance10 == 6
errorTolerance10 == 2
debrisFloor == -30

RECURSIVE Pow2(_)
Pow2(n) == IF n = 0 THEN 1 ELSE 2 * Pow2(n - 1)

H == 2000 * Pow2(MaxTrimLevel + 1)
V == 2 * 10

\* GAME_CONFIG.moveSpeed = 0.15, the per-score increment 0.005, the cap 0.4
moveSpeed == (15 * H) \div 100
speedPerScore == (5 * H) \div 1000
maxSpeed == (4 * H) \div 10
\* GAME_CONFIG.growthFactor = 0.5
growthFactor == H \div 2
\* the sliver threshold 0.05 of handleSuccessfulPlacement
minDebris == (5 * H) \div 100
\* gravity 0.05 per tick, the game-over debris' vertical velocity -0.5
gravity == V \div 20
gameOverVy == 0 - (V \div 2)
gameOverVh == (2 * H) \div 10
\* particle decay 0.05 per tick
lifeDecay == V \div 20

\* Math.random() outcomes the model draws from
\* vy = -0.1 - random * 0.3, for random in {0, 5/6}
VyChoices == {0 - (V \div 10), 0 - ((35 * V) \div 100)}
\* life = 1.0 + random * 0.5, for random in {0, 0.9}: the lives of the
\* even-numbered and of the odd-numbered particles of a burst
LifePatterns == {<<V, V + ((45 * V) \div 100)>>, <<V + ((45 * V) \div 100), V>>}
\* (random - 0.5) * 0.1, for random = 0.5
LateralChoices == {0}

NULL == [null |-> TRUE]

Abs(n) == IF n < 0 THEN 0 - n ELSE n
Min(a, b) == IF a < b THEN a ELSE b

VARIABLES
  stack,          \* THREE.Mesh[]: the tower, base first
  debris,         \* falling fragments, in creation order
  particles,      \* perfect-placement particles
  isGameRunning,
  score,
  axis,           \* "x" or "z"
  direction,      \* 1 or -1
  currentBlock,   \* the moving block, or NULL
  comboCounter,
  animating,      \* a frame of animate is scheduled (animationId not cancelled)
  disposed,       \* dispose() has been called
  threw,          \* the last step was a call that ended in an exception
  events,         \* the callbacks the last step invoked, in order
  t,              \* ticks since the moving block was spawned
  probe,          \* one evaluation of the tolerance test (ToleranceSpec only)
  ui              \* the state of App and GameOverlay (AppSpec only)

vars == <<stack, debris, particles, isGameRunning, score, axis, direction,
          currentBlock, comboCounter, animating, disposed, threw, events,
          t, probe, ui>>

\* the engine's fields as one record, so that a handler is a function on it
Engine ==
  [stack |-> stack, debris |-> debris, particles |-> particles,
   isGameRunning |-> isGameRunning, score |-> score, axis |-> axis,
   direction |-> direction, currentBlock |-> currentBlock,
   comboCounter |-> comboCounter, threw |-> FALSE, events |-> <<>>,
   t |-> t]

Mesh(x, y, z, w, d) == [x |-> x, y |-> y, z |-> z, w |-> w, d |-> d]

Top(e) == e.stack[Len(e.stack)]

Along(m, ax) == IF ax = "x" THEN m.x ELSE m.z

Extent(m, ax) == IF ax = "x" THEN m.w ELSE m.d

MoveAlong(m, ax, v) == IF ax = "x" THEN [m EXCEPT !.x = v] ELSE [m EXCEPT !.z = v]

(* ------------------------- entities and events ------------------------- *)
\* a debris entry: the mesh, its velocity, and two tags the code does not
\* hold: kind says which statement created it, cur says that its mesh is the
\* very object this.currentBlock refers to
Debris(m, vx, vy, vz, kind, cur) ==
  [mesh |-> m, vx |-> vx, vy |-> vy, vz |-> vz, kind |-> kind, cur |-> cur]

Particle(life) == [life |-> life]

ScoreUpdate(s, m) == [type |-> "onScoreUpdate", score |-> s, multiplier |-> m]

GameOver(s) == [type |-> "onGameOver", score |-> s, multiplier |-> 0]

\* mutant: the callback is invoked twice
EmitTwice(e, ev) == [e EXCEPT !.events = Append(Append(@, ev), ev)]

Emit(e, ev) == [e EXCEPT !.events = Append(@, ev)]

(* ------------------------------ handlers ------------------------------ *)
\* cleanup(): drop every mesh, keep the loop and the scalar fields
cleanup(e) ==
  [e EXCEPT !.stack = <<>>, !.debris = <<>>, !.particles = <<>>,
            !.currentBlock = NULL, !.t = 0]

baseBlock == Mesh(0, 0, 0, defaultBlockSize * H, defaultBlockSize * H)

spawnBaseBlock(e) ==
  LET c == cleanup(e)
  IN  [c EXCEPT !.stack = Append(@, baseBlock)]

\* mutant: the growth is not capped at defaultBlockSize
GrownExtentUncapped(ext, combo) ==
  IF combo >= comboThreshold /\ ext < defaultBlockSize * H
  THEN ext + growthFactor
  ELSE ext

\* the extent of the next block: grown toward defaultBlockSize on a combo
GrownExtent(ext, combo) ==
  IF combo >= comboThreshold /\ ext < defaultBlockSize * H
  THEN Min(defaultBlockSize * H, ext + growthFactor)
  ELSE ext

\* spawnNextBlock(): reading the geometry of stack[length - 1] of an empty
\* stack is a TypeError
spawnNextBlock(e) ==
  IF Len(e.stack) = 0
  THEN [e EXCEPT !.threw = TRUE]
  ELSE LET prevBlock == Top(e)
           width == GrownExtent(prevBlock.w, e.comboCounter)
           depth == GrownExtent(prevBlock.d, e.comboCounter)
           y == prevBlock.y + blockHeight * V
           m == IF e.axis = "x"
                THEN Mesh(prevBlock.x - spawnDist * H, y, prevBlock.z, width, depth)
                ELSE Mesh(prevBlock.x, y, prevBlock.z - spawnDist * H, width, depth)
       IN  [e EXCEPT !.currentBlock = m, !.t = 0]

\* mutant: startGame leaves the combo counter as it is
startGameKeepsCombo(e) ==
  LET e1 == cleanup(e)
      e2 == [e1 EXCEPT !.isGameRunning = TRUE, !.score = 0, !.axis = "x",
                        !.direction = 1]
      e3 == Emit(e2, ScoreUpdate(0, 1))
      e4 == spawnBaseBlock(e3)
  IN  spawnNextBlock(e4)

startGame(e) ==
  LET e1 == cleanup(e)
      e2 == [e1 EXCEPT !.isGameRunning = TRUE, !.score = 0, !.axis = "x",
                        !.direction = 1, !.comboCounter = 0]
      e3 == Emit(e2, ScoreUpdate(0, 1))
      e4 == spawnBaseBlock(e3)
  IN  spawnNextBlock(e4)

\* debris.pop(): the last entry leaves, whichever it is
PopDebris(ds) == SubSeq(ds, 1, Len(ds) - 1)

\* no debris entry shares its mesh with currentBlock any more
Unalias(ds) == [i \in 1..Len(ds) |-> [ds[i] EXCEPT !.cur = FALSE]]

\* mutant: reviveGame resumes with the block that failed
reviveGameKeepsBlock(e) ==
  IF e.isGameRunning
  THEN e
  ELSE LET e1 == IF Len(e.debris) > 0
                 THEN [e EXCEPT !.debris = PopDebris(@)]
                 ELSE e
       IN  [e1 EXCEPT !.isGameRunning = TRUE, !.debris = Unalias(@), !.t = 0]

\* mutant: reviveGame without its guard
reviveGameUnguarded(e) ==
  LET e1 == IF Len(e.debris) > 0
            THEN [e EXCEPT !.debris = PopDebris(@)]
            ELSE e
      e2 == [e1 EXCEPT !.isGameRunning = TRUE, !.currentBlock = NULL,
                       !.debris = Unalias(@)]
  IN  spawnNextBlock(e2)

reviveGame(e) ==
  IF e.isGameRunning
  THEN e
  ELSE LET e1 == IF Len(e.debris) > 0
                 THEN [e EXCEPT !.debris = PopDebris(@)]
                 ELSE e
           e2 == [e1 EXCEPT !.isGameRunning = TRUE, !.currentBlock = NULL,
                            !.debris = Unalias(@)]
       IN  spawnNextBlock(e2)

\* mutant: the interpolation is not stopped at difficultyRamp
ToleranceUnclamped(sc) ==
  (initialErrorTolerance10 * difficultyRamp
     - sc * (initialErrorTolerance10 - errorTolerance10)) * H

\* currentTolerance of placeBlock, times 10 * difficultyRamp (so that the
\* interpolation stays in whole numbers)
ToleranceScaled(sc) ==
  IF sc < difficultyRamp
  THEN (initialErrorTolerance10 * difficultyRamp
          - sc * (initialErrorTolerance10 - errorTolerance10)) * H
  ELSE errorTolerance10 * difficultyRamp * H

\* mutant: the tolerance is the final one at every score
WithinToleranceNoRamp(delta, sc) ==
  Abs(delta) * 10 < errorTolerance10 * H

\* Math.abs(delta) < currentTolerance
WithinTolerance(delta, sc) ==
  Abs(delta) * 10 * difficultyRamp < ToleranceScaled(sc)

\* mutant: no combo bonus
MultiplierFlat(combo) == 1

\* mutant: the bonus starts one placement late
MultiplierLate(combo) ==
  IF combo > comboThreshold THEN (combo \div comboThreshold) + 1 ELSE 1

\* the multiplier of handleSuccessfulPlacement
Multiplier(combo) ==
  IF combo >= comboThreshold THEN (combo \div comboThreshold) + 1 ELSE 1

\* spawnPerfectParticles(): particleCount particles; the model draws two
\* lives and gives them to the particles in turn
spawnPerfectParticles(e, lives) ==
  [e EXCEPT !.particles =
     @ \o [i \in 1..particleCount |-> Particle(lives[(i % 2) + 1])]]

\* the fragment cut off by a trimmed placement; cb is the placed block
TrimDebris(cb, ax, delta, newWidth, newDepth, r) ==
  LET dWidth == IF ax = "x" THEN Abs(delta) ELSE newWidth
      dDepth == IF ax = "z" THEN Abs(delta) ELSE newDepth
      debrisX == IF delta > 0
                 THEN cb.x + (newWidth \div 2) + (dWidth \div 2)
                 ELSE cb.x - (newWidth \div 2) - (dWidth \div 2)
      debrisZ == IF delta > 0
                 THEN cb.z + (newDepth \div 2) + (dDepth \div 2)
                 ELSE cb.z - (newDepth \div 2) - (dDepth \div 2)
      m == IF ax = "x"
           THEN Mesh(debrisX, cb.y, cb.z, dWidth, dDepth)
           ELSE Mesh(cb.x, cb.y, debrisZ, dWidth, dDepth)
      push == (delta * 3) \div 10 + (IF delta > 0 THEN H \div 10 ELSE 0 - (H \div 10))
      vx == IF ax = "x" THEN push ELSE r.lat
      vz == IF ax = "z" THEN push ELSE r.lat
  IN  IF dWidth > minDebris /\ dDepth > minDebris
      THEN <<Debris(m, vx, r.vy, vz, "trim", FALSE)>>
      ELSE <<>>

\* mutant: the trimmed block is not recentred
handleSuccessfulPlacementNoShift(e, delta, newWidth, newDepth, prevPos, r) ==
  IF e.currentBlock = NULL
  THEN e
  ELSE LET shift == delta \div 2
           resized == [e.currentBlock EXCEPT !.w = newWidth, !.d = newDepth]
           cb == resized
           frag == IF delta # 0
                   THEN TrimDebris(cb, e.axis, delta, newWidth, newDepth, r)
                   ELSE <<>>
           multiplier == Multiplier(e.comboCounter)
           e1 == [e EXCEPT !.currentBlock = cb,
                           !.debris = @ \o frag,
                           !.stack = Append(@, cb),
                           !.score = @ + multiplier]
           e2 == Emit(e1, ScoreUpdate(e1.score, multiplier))
           e3 == [e2 EXCEPT !.axis = IF @ = "x" THEN "z" ELSE "x"]
       IN  spawnNextBlock(e3)

\* mutant: the axis is not toggled
handleSuccessfulPlacementKeepsAxis(e, delta, newWidth, newDepth, prevPos, r) ==
  IF e.currentBlock = NULL
  THEN e
  ELSE LET shift == delta \div 2
           resized == [e.currentBlock EXCEPT !.w = newWidth, !.d = newDepth]
           cb == MoveAlong(resized, e.axis, Along(prevPos, e.axis) + shift)
           frag == IF delta # 0
                   THEN TrimDebris(cb, e.axis, delta, newWidth, newDepth, r)
                   ELSE <<>>
           multiplier == Multiplier(e.comboCounter)
           e1 == [e EXCEPT !.currentBlock = cb,
                           !.debris = @ \o frag,
                           !.stack = Append(@, cb),
                           !.score = @ + multiplier]
           e2 == Emit(e1, ScoreUpdate(e1.score, multiplier))
       IN  spawnNextBlock(e2)

\* mutant: the placed block is not pushed on the tower
handleSuccessfulPlacementNoPush(e, delta, newWidth, newDepth, prevPos, r) ==
  IF e.currentBlock = NULL
  THEN e
  ELSE LET shift == delta \div 2
           resized == [e.currentBlock EXCEPT !.w = newWidth, !.d = newDepth]
           cb == MoveAlong(resized, e.axis, Along(prevPos, e.axis) + shift)
           frag == IF delta # 0
                   THEN TrimDebris(cb, e.axis, delta, newWidth, newDepth, r)
                   ELSE <<>>
           multiplier == Multiplier(e.comboCounter)
           e1 == [e EXCEPT !.currentBlock = cb,
                           !.debris = @ \o frag,
                           !.score = @ + multiplier]
           e2 == Emit(e1, ScoreUpdate(e1.score, multiplier))
           e3 == [e2 EXCEPT !.axis = IF @ = "x" THEN "z" ELSE "x"]
       IN  spawnNextBlock(e3)

handleSuccessfulPlacement(e, delta, newWidth, newDepth, prevPos, r) ==
  IF e.currentBlock = NULL
  THEN e
  ELSE LET shift == delta \div 2
           resized == [e.currentBlock EXCEPT !.w = newWidth, !.d = newDepth]
           cb == MoveAlong(resized, e.axis, Along(prevPos, e.axis) + shift)
           frag == IF delta # 0
                   THEN TrimDebris(cb, e.axis, delta, newWidth, newDepth, r)
                   ELSE <<>>
           multiplier == Multiplier(e.comboCounter)
           e1 == [e EXCEPT !.currentBlock = cb,
                           !.debris = @ \o frag,
                           !.stack = Append(@, cb),
                           !.score = @ + multiplier]
           e2 == Emit(e1, ScoreUpdate(e1.score, multiplier))
           e3 == [e2 EXCEPT !.axis = IF @ = "x" THEN "z" ELSE "x"]
       IN  spawnNextBlock(e3)

\* mutant: the game-over callback is forgotten
handleGameOverSilent(e) ==
  LET e1 == [e EXCEPT !.isGameRunning = FALSE]
      dirX == IF e.axis = "x" THEN e.direction ELSE 0
      dirZ == IF e.axis = "z" THEN e.direction ELSE 0
  IN  IF e1.currentBlock # NULL
      THEN [e1 EXCEPT !.debris =
             Append(@, Debris(e1.currentBlock, dirX * gameOverVh,
                              gameOverVy, dirZ * gameOverVh,
                              "gameover", TRUE))]
      ELSE e1

\* mutant: the engine is left running
handleGameOverStillRunning(e) ==
  LET dirX == IF e.axis = "x" THEN e.direction ELSE 0
      dirZ == IF e.axis = "z" THEN e.direction ELSE 0
      e2 == IF e.currentBlock # NULL
            THEN [e EXCEPT !.debris =
                   Append(@, Debris(e.currentBlock, dirX * gameOverVh,
                                    gameOverVy, dirZ * gameOverVh,
                                    "gameover", TRUE))]
            ELSE e
  IN  [e2 EXCEPT !.events = Append(@, GameOver(e2.score))]

handleGameOver(e) ==
  LET e1 == [e EXCEPT !.isGameRunning = FALSE]
      dirX == IF e.axis = "x" THEN e.direction ELSE 0
      dirZ == IF e.axis = "z" THEN e.direction ELSE 0
      e2 == IF e1.currentBlock # NULL
            THEN [e1 EXCEPT !.debris =
                   Append(@, Debris(e1.currentBlock, dirX * gameOverVh,
                                    gameOverVy, dirZ * gameOverVh,
                                    "gameover", TRUE))]
            ELSE e1
  IN  Emit(e2, GameOver(e2.score))

\* mutant: an overlap of exactly 0 counts as a success
OverlapNonNegative(overlap) == overlap >= 0

\* overlap > 0
OverlapPositive(overlap) == overlap > 0

\* mutant: a trimmed or failed placement keeps the combo counter
placeBlockKeepsCombo(e, r) ==
  IF ~e.isGameRunning \/ e.currentBlock = NULL
  THEN e
  ELSE LET current == e.currentBlock
           prev == Top(e)
           delta0 == Along(current, e.axis) - Along(prev, e.axis)
           perfect == WithinTolerance(delta0, e.score)
           \* perfect branch
           snapped == MoveAlong(current, e.axis, Along(prev, e.axis))
           p1 == [e EXCEPT !.currentBlock = snapped,
                           !.comboCounter = @ + 1]
           p2 == spawnPerfectParticles(p1, r.lives)
           \* trimmed branch
           q1 == e
           e1 == IF perfect THEN p2 ELSE q1
           delta == IF perfect THEN 0 ELSE delta0
           overlap == IF perfect
                      THEN Extent(current, e.axis)
                      ELSE Extent(prev, e.axis) - Abs(delta0)
           newWidth == IF ~perfect /\ e.axis = "x" THEN overlap ELSE current.w
           newDepth == IF ~perfect /\ e.axis = "z" THEN overlap ELSE current.d
       IN  IF OverlapPositive(overlap)
           THEN handleSuccessfulPlacement(e1, delta, newWidth, newDepth, prev, r)
           ELSE handleGameOver(e1)

\* mutant: placeBlock does not look at isGameRunning
placeBlockWhenStopped(e, r) ==
  IF e.currentBlock = NULL
  THEN e
  ELSE LET current == e.currentBlock
           prev == Top(e)
           delta0 == Along(current, e.axis) - Along(prev, e.axis)
           perfect == WithinTolerance(delta0, e.score)
           \* perfect branch
           snapped == MoveAlong(current, e.axis, Along(prev, e.axis))
           p1 == [e EXCEPT !.currentBlock = snapped,
                           !.comboCounter = @ + 1]
           p2 == spawnPerfectParticles(p1, r.lives)
           \* trimmed branch
           q1 == [e EXCEPT !.comboCounter = 0]
           e1 == IF perfect THEN p2 ELSE q1
           delta == IF perfect THEN 0 ELSE delta0
           overlap == IF perfect
                      THEN Extent(current, e.axis)
                      ELSE Extent(prev, e.axis) - Abs(delta0)
           newWidth == IF ~perfect /\ e.axis = "x" THEN overlap ELSE current.w
           newDepth == IF ~perfect /\ e.axis = "z" THEN overlap ELSE current.d
       IN  IF OverlapPositive(overlap)
           THEN handleSuccessfulPlacement(e1, delta, newWidth, newDepth, prev, r)
           ELSE handleGameOver(e1)

placeBlock(e, r) ==
  IF ~e.isGameRunning \/ e.currentBlock = NULL
  THEN e
  ELSE LET current == e.currentBlock
           prev == Top(e)
           delta0 == Along(current, e.axis) - Along(prev, e.axis)
           perfect == WithinTolerance(delta0, e.score)
           \* perfect branch
           snapped == MoveAlong(current, e.axis, Along(prev, e.axis))
           p1 == [e EXCEPT !.currentBlock = snapped,
                           !.comboCounter = @ + 1]
           p2 == spawnPerfectParticles(p1, r.lives)
           \* trimmed branch
           q1 == [e EXCEPT !.comboCounter = 0]
           e1 == IF perfect THEN p2 ELSE q1
           delta == IF perfect THEN 0 ELSE delta0
           overlap == IF perfect
                      THEN Extent(current, e.axis)
                      ELSE Extent(prev, e.axis) - Abs(delta0)
           newWidth == IF ~perfect /\ e.axis = "x" THEN overlap ELSE current.w
           newDepth == IF ~perfect /\ e.axis = "z" THEN overlap ELSE current.d
       IN  IF OverlapPositive(overlap)
           THEN handleSuccessfulPlacement(e1, delta, newWidth, newDepth, prev, r)
           ELSE handleGameOver(e1)

(* -------------------------------- tick -------------------------------- *)
\* actualSpeed of animate
ActualSpeed(sc) == Min(moveSpeed + sc * speedPerScore, maxSpeed)

\* the oscillation step of animate
Oscillate(e) ==
  IF e.isGameRunning /\ e.currentBlock # NULL
  THEN LET pos == Along(e.currentBlock, e.axis) + ActualSpeed(e.score) * e.direction
           moved == MoveAlong(e.currentBlock, e.axis, pos)
           out == Abs(pos - Along(Top(e), e.axis)) > oscillationLimit * H
       IN  [e EXCEPT !.currentBlock = moved,
                     !.direction = IF out THEN 0 - @ ELSE @,
                     !.t = @ + 1]
  ELSE e

\* one debris entry after a frame: position += velocity, then gravity
StepDebris(d) ==
  [d EXCEPT !.mesh.x = @ + d.vx, !.mesh.y = @ + d.vy, !.mesh.z = @ + d.vz,
            !.vy = @ - gravity]

\* d.mesh.position.y < -30
DebrisGone(d) == d.mesh.y < debrisFloor * V

RemoveAt(q, i) == SubSeq(q, 1, i - 1) \o SubSeq(q, i + 1, Len(q))

\* for (let i = debris.length - 1; i >= 0; i--) { ...; splice(i, 1) }
RECURSIVE DebrisLoop(_, _)
DebrisLoop(ds, i) ==
  IF i = 0
  THEN ds
  ELSE LET d == StepDebris(ds[i])
       IN  IF DebrisGone(d)
           THEN DebrisLoop(RemoveAt(ds, i), i - 1)
           ELSE DebrisLoop([ds EXCEPT ![i] = d], i - 1)

\* mutant: the life decays twice as fast
StepParticleTwice(p) == [p EXCEPT !.life = @ - 2 * lifeDecay]

StepParticle(p) == [p EXCEPT !.life = @ - lifeDecay]

\* p.life <= 0
ParticleGone(p) == p.life <= 0

\* mutant: the loop runs forward, so the entry behind a removed one is skipped
RECURSIVE ForwardFrom(_, _)
ForwardFrom(ps, i) ==
  IF i > Len(ps)
  THEN ps
  ELSE LET p == StepParticle(ps[i])
       IN  IF ParticleGone(p)
           THEN ForwardFrom(RemoveAt(ps, i), i + 1)
           ELSE ForwardFrom([ps EXCEPT ![i] = p], i + 1)

ParticleLoopForward(ps, i) == ForwardFrom(ps, 1)

\* for (let i = particles.length - 1; i >= 0; i--) { ...; splice(i, 1) }
RECURSIVE ParticleLoop(_, _)
ParticleLoop(ps, i) ==
  IF i = 0
  THEN ps
  ELSE LET p == StepParticle(ps[i])
       IN  IF ParticleGone(p)
           THEN ParticleLoop(RemoveAt(ps, i), i - 1)
           ELSE ParticleLoop([ps EXCEPT ![i] = p], i - 1)

\* the debris entry whose mesh is currentBlock moves currentBlock with it
AliasedBlock(e) ==
  IF \E i \in 1..Len(e.debris) : e.debris[i].cur
  THEN StepDebris(e.debris[CHOOSE i \in 1..Len(e.debris) : e.debris[i].cur]).mesh
  ELSE e.currentBlock

animate(e) ==
  LET e1 == Oscillate(e)
      e2 == [e1 EXCEPT !.currentBlock = AliasedBlock(e1),
                       !.debris = DebrisLoop(@, Len(@))]
  IN  [e2 EXCEPT !.particles = ParticleLoop(@, Len(@))]

(* ------------------------------ the player ----------------------------- *)
\* The moments at which the model's player taps.  A tap inside the tolerance
\* is made at any tick; a tap that trims is made every TapEvery ticks after
\* the spawn, at the tolerance (|delta| equal to it) and where the overlap
\* left is at most one step of the block (a sliver); a tap that misses is
\* made every MissEvery * TapEvery ticks and where |delta| equals the
\* reference extent.  The player trims while the tower holds at most
\* MaxTrimLevel blocks, and trims a block that was spawned larger than the
\* tower top (grown after a combo) at any height.
TapSampled(e) ==
  LET delta == Along(e.currentBlock, e.axis) - Along(Top(e), e.axis)
      ext == Extent(Top(e), e.axis)
      room == Len(e.stack) < MaxTower
  IN  IF WithinTolerance(delta, e.score)
      THEN room
      ELSE IF Abs(delta) >= ext
           THEN e.t % (MissEvery * TapEvery) = 0 \/ Abs(delta) = ext
           ELSE /\ room
                /\ \/ Len(e.stack) <= MaxTrimLevel
                   \/ Extent(e.currentBlock, e.axis) # ext
                /\ \/ e.t % TapEvery = 0
                   \/ Abs(delta) * 10 * difficultyRamp = ToleranceScaled(e.score)
                   \/ ext - Abs(delta) <= ActualSpeed(e.score)

Randoms ==
  [vy : VyChoices, lat : LateralChoices, lives : LifePatterns]

(* ------------------------------- actions ------------------------------ *)
Set(e) ==
  /\ stack' = e.stack
  /\ debris' = e.debris
  /\ particles' = e.particles
  /\ isGameRunning' = e.isGameRunning
  /\ score' = e.score
  /\ axis' = e.axis
  /\ direction' = e.direction
  /\ currentBlock' = e.currentBlock
  /\ comboCounter' = e.comboCounter
  /\ threw' = e.threw
  /\ events' = e.events
  /\ t' = e.t

\* the constructor: animate() schedules the first frame, spawnBaseBlock()
Constructed ==
  LET e == spawnBaseBlock(
             [stack |-> <<>>, debris |-> <<>>, particles |-> <<>>,
              isGameRunning |-> FALSE, score |-> 0, axis |-> "x",
              direction |-> 1, currentBlock |-> NULL, comboCounter |-> 0,
              threw |-> FALSE, events |-> <<>>, t |-> 0])
  IN  /\ stack = e.stack
      /\ debris = e.debris
      /\ particles = e.particles
      /\ isGameRunning = e.isGameRunning
      /\ score = e.score
      /\ axis = e.axis
      /\ direction = e.direction
      /\ currentBlock = e.currentBlock
      /\ comboCounter = e.comboCounter
      /\ threw = e.threw
      /\ events = e.events
      /\ t = e.t
      /\ animating = TRUE
      /\ disposed = FALSE

Init == Constructed /\ probe = NULL /\ ui = NULL

StartGame ==
  /\ Set(startGame(Engine))
  /\ UNCHANGED <<animating, disposed, probe, ui>>

ReviveGame ==
  /\ Set(reviveGame(Engine))
  /\ UNCHANGED <<animating, disposed, probe, ui>>

PlaceBlock ==
  /\ (isGameRunning /\ currentBlock # NULL) => TapSampled(Engine)
  /\ \E r \in Randoms : Set(placeBlock(Engine, r))
  /\ UNCHANGED <<animating, disposed, probe, ui>>

\* a frame: animate() runs and schedules the next one
Tick ==
  /\ animating
  /\ (isGameRunning /\ currentBlock # NULL) => t < MaxTicks
  /\ Set(animate(Engine))
  /\ UNCHANGED <<animating, disposed, probe, ui>>

\* mutant: dispose() does not cancel the scheduled frame
DisposeKeepsLoop ==
  /\ Set(cleanup(Engine))
  /\ disposed' = TRUE
  /\ UNCHANGED <<animating, probe, ui>>

\* dispose(): cancelAnimationFrame, then cleanup
Dispose ==
  /\ Set(cleanup(Engine))
  /\ animating' = FALSE
  /\ disposed' = TRUE
  /\ UNCHANGED <<probe, ui>>

Next == StartGame \/ ReviveGame \/ PlaceBlock \/ Tick \/ Dispose

Spec == Init /\ [][Next]_vars

\* a frame would change the state: one is scheduled (and the player has not
\* waited MaxTicks), and a block oscillates, an entity falls or fades, or the
\* last step left callbacks or an exception behind
TickChanges ==
  /\ animating
  /\ (isGameRunning /\ currentBlock # NULL) => t < MaxTicks
  /\ \/ isGameRunning /\ currentBlock # NULL
     \/ debris # <<>>
     \/ particles # <<>>
     \/ events # <<>>
     \/ threw

\* requestAnimationFrame runs animate again and again until dispose() cancels
\* the scheduled frame: weak fairness of Tick, WF_vars(Tick), written out
\* with the state predicate TickChanges for ENABLED <<Tick>>_vars
LiveSpec ==
  Init /\ [][Next]_vars /\ ([]<>~TickChanges \/ []<><<Tick>>_vars)

(* ---------------- the tolerance test as a pure function ---------------- *)
\* 0.005 world units
ProbeStep == H \div 200

ProbeInputs ==
  {[score |-> s, delta |-> d * ProbeStep, done |-> FALSE, tol |-> 0,
    perfect |-> FALSE] :
     s \in 0..MaxProbeScore, d \in (0 - MaxProbeDelta)..MaxProbeDelta}

ToleranceInit == Constructed /\ probe \in ProbeInputs /\ ui = NULL

\* placeBlock's currentTolerance and its test Math.abs(delta) < currentTolerance
\* at the drawn score and offset
ApplyTolerance ==
  /\ probe # NULL
  /\ ~probe.done
  /\ probe' = [probe EXCEPT !.done = TRUE,
                            !.tol = ToleranceScaled(probe.score),
                            !.perfect = WithinTolerance(probe.delta,
                                                        probe.score)]
  /\ UNCHANGED <<stack, debris, particles, isGameRunning, score, axis,
                 direction, currentBlock, comboCounter, animating, disposed,
                 threw, events, t, ui>>

ToleranceNext == ApplyTolerance

ToleranceSpec == ToleranceInit /\ [][ToleranceNext]_vars

(* --------------------- App and GameOverlay (the UI) --------------------- *)
\* App keeps gameState, score, multiplier and highScore and owns the engine;
\* GameOverlay keeps hasRevived and isWatchingAd and the timer of the
\* simulated ad.  Two tags the code does not have: overs, the game-overs of
\* the game in progress (counted to 2), and revived, a revive was used in it.
UiMounted ==
  [gameState |-> "MENU", score |-> 0, multiplier |-> 1, highScore |-> 0,
   hasRevived |-> FALSE, isWatchingAd |-> FALSE, adTimer |-> FALSE,
   overs |-> 0, revived |-> FALSE]

\* useEffect(..., [gameState]): local state is reset on arriving in MENU
OverlayEffect(before, after) ==
  IF after.gameState = "MENU" /\ before.gameState # "MENU"
  THEN [after EXCEPT !.hasRevived = FALSE, !.isWatchingAd = FALSE]
  ELSE after

\* the engine's callbacks as App receives them: onScoreUpdate sets score and
\* multiplier, onGameOver shows the game-over screen and updates the best
RECURSIVE Deliver(_, _)
Deliver(u, evs) ==
  IF evs = <<>>
  THEN u
  ELSE LET ev == Head(evs)
           u1 == IF ev.type = "onScoreUpdate"
                 THEN [u EXCEPT !.score = ev.score,
                                !.multiplier = ev.multiplier]
                 ELSE [u EXCEPT !.gameState = "GAME_OVER",
                                !.highScore = IF ev.score > @ THEN ev.score
                                              ELSE @,
                                !.overs = Min(@ + 1, 2)]
       IN  Deliver(u1, Tail(evs))

\* one UI event: the engine call it makes and the state App and the overlay
\* are left with
SetUi(e, u) ==
  /\ Set(e)
  /\ ui' = OverlayEffect(ui, Deliver(u, e.events))
  /\ UNCHANGED <<animating, disposed, probe>>

\* Start in the menu and Try Again on the game-over screen: startGame()
NewGame(u) == [u EXCEPT !.gameState = "PLAYING", !.overs = 0,
                        !.revived = FALSE]

AppStart ==
  /\ ui.gameState = "MENU"
  /\ SetUi(startGame(Engine), NewGame(ui))

AppRestart ==
  /\ ui.gameState = "GAME_OVER"
  /\ SetUi(startGame(Engine), NewGame(ui))

\* the taps the player of AppSpec makes while a block moves: at the tick
\* nearest the tower top and every TapEvery ticks
AppTapSampled(e) ==
  /\ TapSampled(e)
  /\ \/ e.t % TapEvery = 0
     \/ Abs(Along(e.currentBlock, e.axis) - Along(Top(e), e.axis)) * 2
          <= ActualSpeed(e.score)

\* a tap on the canvas: placeBlock(), in whatever state the game is
AppTap ==
  /\ (isGameRunning /\ currentBlock # NULL) => AppTapSampled(Engine)
  /\ \E r \in Randoms : SetUi(placeBlock(Engine, r), ui)

\* the revive button is rendered while !hasRevived and disabled while
\* isWatchingAd; handleAdClick sets isWatchingAd and starts the 2 s timer
handleAdClick ==
  /\ ui.gameState = "GAME_OVER"
  /\ ~ui.hasRevived
  /\ ~ui.isWatchingAd
  /\ ui' = [ui EXCEPT !.isWatchingAd = TRUE, !.adTimer = TRUE]
  /\ UNCHANGED <<stack, debris, particles, isGameRunning, score, axis,
                 direction, currentBlock, comboCounter, animating, disposed,
                 threw, events, t, probe>>

\* onRevive of App: reviveGame(), and the game is shown as playing
onRevive(u) == [u EXCEPT !.gameState = "PLAYING"]

\* the timer's callback, 2 s after the click whatever happened meanwhile:
\* setIsWatchingAd(false); setHasRevived(true); onRevive()
AdCallback ==
  /\ ui.adTimer
  /\ SetUi(reviveGame(Engine),
           onRevive([ui EXCEPT !.isWatchingAd = FALSE, !.hasRevived = TRUE,
                               !.adTimer = FALSE, !.revived = TRUE]))

AppInit == Constructed /\ probe = NULL /\ ui = UiMounted

AppNext ==
  AppStart \/ AppRestart \/ AppTap \/ handleAdClick \/ AdCallback \/ Tick

AppSpec == AppInit /\ [][AppNext]_vars

\* Best Score on the game-over screen: Math.max(score, highScore); the menu
\* shows highScore
DisplayedBest ==
  IF ui.gameState = "GAME_OVER"
  THEN (IF ui.score > ui.highScore THEN ui.score ELSE ui.highScore)
  ELSE ui.highScore

(* ======================= the claims of the spec ======================== *)
\* what placeBlock reads before it decides, stated from the variables
Playing == isGameRunning /\ currentBlock # NULL /\ stack # <<>>

TowerTop == stack[Len(stack)]

Delta == Along(currentBlock, axis) - Along(TowerTop, axis)

RefExtent == Extent(TowerTop, axis)

\* |delta| < 0.6 - (score / 15) * 0.4 below score 15, |delta| < 0.2 from there
InsideTolerance ==
  IF score < 15
  THEN Abs(Delta) * 150 < (90 - 4 * score) * H
  ELSE Abs(Delta) * 10 < 2 * H

NoEntities ==
  stack = <<>> /\ debris = <<>> /\ particles = <<>> /\ currentBlock = NULL

Emitted(type) == {i \in 1..Len(events) : events[i].type = type}

\* C1: once dispose() has been called, no public call throws and none
\* creates an entity: tower, debris and particles stay empty and there is no
\* moving block.
C1_DisposeIsFinal == disposed => (~threw /\ NoEntities)

\* C2: the debris entry that reviveGame removes when the game is over is the
\* block that caused the game-over, never another fragment.
C2_ReviveRemovesGameOverBlock ==
  [][(ReviveGame /\ ~isGameRunning /\ Len(debris') < Len(debris))
       => debris[Len(debris)].kind = "gameover"]_vars

\* C3: in a Playing state a placeBlock with |delta| at least the reference
\* extent ends the game: isGameRunning becomes false, onGameOver fires and the
\* tower is unchanged.
C3_MissBeyondExtent ==
  [][(PlaceBlock /\ Playing /\ Abs(Delta) >= RefExtent)
       => (~isGameRunning' /\ Emitted("onGameOver")' # {} /\ stack' = stack)]_vars

\* C3 as amended: the same, for a |delta| that is also outside the tolerance.
C3_MissBeyondExtentOutsideTolerance ==
  [][(PlaceBlock /\ Playing /\ Abs(Delta) >= RefExtent /\ ~InsideTolerance)
       => (~isGameRunning' /\ Emitted("onGameOver")' # {} /\ stack' = stack)]_vars

\* a game just ended by a block that was a full reference extent or more away
C3_Witness ==
  /\ ~isGameRunning /\ ~disposed /\ currentBlock # NULL /\ stack # <<>>
  /\ events = <<GameOver(score)>>
  /\ Abs(Delta) >= RefExtent
  /\ Len(stack) > 1

\* C4: after startGame and exactly five perfect placements in a row the score
\* is 5.
C4_FivePerfectScoreFive ==
  (Len(stack) = 6 /\ comboCounter = 5) => score = 5

\* C4 as amended: after startGame and exactly five perfect placements in a
\* row the score is 8 (1 + 1 + 2 + 2 + 2).
C4_FivePerfectScoreEight ==
  (Len(stack) = 6 /\ comboCounter = 5) => score = 8

\* five placed blocks on the base, all of them perfect
C4_Witness ==
  isGameRunning /\ Len(stack) = 6 /\ comboCounter = 5 /\ currentBlock # NULL

\* the multiplier the spec gives for a combo counter
SpecMultiplier(combo) == IF combo < 3 THEN 1 ELSE (combo \div 3) + 1

SpecOverlap ==
  IF InsideTolerance THEN Extent(currentBlock, axis) ELSE RefExtent - Abs(Delta)

\* C6: a successful placement (overlap > 0) adds to the score exactly the
\* multiplier of the combo counter it leaves and invokes onScoreUpdate once,
\* with the new score and that multiplier; a failed one leaves the score and
\* invokes no onScoreUpdate; the score decreases only in startGame.
C6_ScoreAward ==
  [][/\ (PlaceBlock /\ Playing /\ SpecOverlap > 0)
          => /\ score' = score + SpecMultiplier(comboCounter')
             /\ events' = <<[type |-> "onScoreUpdate", score |-> score',
                             multiplier |-> SpecMultiplier(comboCounter')]>>
     /\ (PlaceBlock /\ Playing /\ SpecOverlap <= 0)
          => /\ score' = score
             /\ Emitted("onScoreUpdate")' = {}
     /\ score' < score => StartGame]_vars

\* a placement has just been rewarded with multiplier 2
C6_Witness ==
  /\ isGameRunning /\ score >= 4 /\ comboCounter >= 3
  /\ events = <<[type |-> "onScoreUpdate", score |-> score, multiplier |-> 2]>>

\* C7: a placeBlock in Playing with |delta| below the current tolerance
\* (delta = 0 included) is perfect: the block is snapped to the reference
\* position along the active axis and keeps both extents, the combo counter
\* grows by 1, the block is pushed on the tower and the game goes on.
C7_PerfectPlacement ==
  [][(PlaceBlock /\ Playing /\ InsideTolerance)
       => /\ Len(stack') = Len(stack) + 1
          /\ SubSeq(stack', 1, Len(stack)) = stack
          /\ Along(stack'[Len(stack')], axis) = Along(TowerTop, axis)
          /\ stack'[Len(stack')].w = currentBlock.w
          /\ stack'[Len(stack')].d = currentBlock.d
          /\ comboCounter' = comboCounter + 1
          /\ isGameRunning'
          /\ Emitted("onGameOver")' = {}]_vars

\* a perfect placement has just been made on a tower of two or more blocks:
\* the placed block sits exactly over the one below along the axis it moved on
C7_Witness ==
  /\ Playing /\ comboCounter >= 1 /\ Len(stack) >= 3 /\ t = 0
  /\ Emitted("onScoreUpdate") # {}
  /\ Len(particles) >= 20
  /\ LET placed == IF axis = "x" THEN "z" ELSE "x"
     IN  Along(stack[Len(stack)], placed) = Along(stack[Len(stack) - 1], placed)

\* C8: a placement whose overlap comes out as exactly 0 fails; after startGame
\* a placement at an offset of the full reference width 3 ends the game with
\* onGameOver(0) and the tower still only holds the base block.
C8_ZeroOverlapFails ==
  [][(PlaceBlock /\ Playing /\ SpecOverlap = 0)
       => /\ ~isGameRunning'
          /\ events' = <<[type |-> "onGameOver", score |-> score, multiplier |-> 0]>>
          /\ stack' = stack
          /\ (Len(stack) = 1 /\ Abs(Delta) = 3 * H)
               => (score = 0 /\ stack'[1].w = 3 * H /\ stack'[1].d = 3 * H
                   /\ stack'[1].x = 0 /\ stack'[1].z = 0)]_vars

\* the first block of a game was dropped exactly one reference width away
C8_Witness ==
  /\ ~isGameRunning /\ ~disposed /\ Len(stack) = 1 /\ currentBlock # NULL
  /\ events = <<[type |-> "onGameOver", score |-> 0, multiplier |-> 0]>>
  /\ Abs(Delta) = 3 * H

\* C9: onGameOver is invoked exactly when a step takes the engine from
\* running to not running, once, with the score; the engine runs again only
\* through startGame or reviveGame.
C9_GameOverOncePerTransition ==
  [][/\ Cardinality(Emitted("onGameOver")') <= 1
     /\ (Emitted("onGameOver")' # {}) <=> (isGameRunning /\ ~isGameRunning')
     /\ \A i \in Emitted("onGameOver")' :
          events'[i].score = score' /\ score' = score
     /\ (~isGameRunning /\ isGameRunning') => (StartGame \/ ReviveGame)]_vars

\* a game with a positive score has just ended
C9_Witness ==
  /\ ~isGameRunning /\ score > 0
  /\ events = <<[type |-> "onGameOver", score |-> score, multiplier |-> 0]>>

\* the extent the spec gives a spawned block over a top extent
SpecSpawnExtent(ext, combo) ==
  IF combo >= 3 /\ ext < 3 * H
  THEN (IF ext + H \div 2 > 3 * H THEN 3 * H ELSE ext + H \div 2)
  ELSE ext

AllMeshes ==
  {stack[i] : i \in 1..Len(stack)}
    \cup {debris[i].mesh : i \in 1..Len(debris)}
    \cup (IF currentBlock = NULL THEN {} ELSE {currentBlock})

\* C10: the moving block's width and depth are the tower top's, grown by 0.5
\* up to 3 when the combo counter is at least 3 and the extent is below 3; so
\* they are never below the top's, and no block has an extent above 3 or at
\* most 0.
C10_SpawnExtents ==
  /\ Playing =>
       /\ currentBlock.w = SpecSpawnExtent(TowerTop.w, comboCounter)
       /\ currentBlock.d = SpecSpawnExtent(TowerTop.d, comboCounter)
       /\ currentBlock.w >= TowerTop.w
       /\ currentBlock.d >= TowerTop.d
       /\ (comboCounter < 3 => (currentBlock.w = TowerTop.w /\ currentBlock.d = TowerTop.d))
  /\ \A m \in AllMeshes : 0 < m.w /\ m.w <= 3 * H /\ 0 < m.d /\ m.d <= 3 * H

\* a block spawned wider than the tower top after three perfect placements
C10_Witness ==
  Playing /\ comboCounter >= 3 /\ currentBlock.w > TowerTop.w

\* C11: the tolerance placeBlock compares |delta| with depends on the score
\* alone: 0.6 - (score / 15) * 0.4 below score 15 and exactly 0.2 from score
\* 15 on (here times 150 * H), it never grows with the score, and the test
\* is |delta| < tolerance.
C11_ToleranceOfScore ==
  (probe # NULL /\ probe.done) =>
    /\ probe.tol = IF probe.score < 15 THEN (90 - 4 * probe.score) * H
                                        ELSE 30 * H
    /\ probe.perfect <=> (Abs(probe.delta) * 150 < probe.tol)
    /\ \A s \in 0..probe.score : ToleranceScaled(s) >= probe.tol
    /\ \A s \in 15..probe.score : ToleranceScaled(s) = probe.tol

\* past the ramp, an offset of exactly 0.2 is not within the tolerance
C11_Witness ==
  /\ probe # NULL
  /\ probe.done
  /\ probe.score > 15
  /\ Abs(probe.delta) * 10 = 2 * H
  /\ ~probe.perfect
  /\ probe.tol = 30 * H

\* C12: a reviveGame call made while isGameRunning is true returns at once:
\* score, combo, axis, direction, tower, moving block, debris and particles
\* stay as they are and no callback is invoked.
C12_ReviveWhilePlayingNoOp ==
  [][(isGameRunning /\ ReviveGame) =>
       /\ UNCHANGED <<score, comboCounter, axis, direction, stack,
                      currentBlock, debris, particles, isGameRunning, t>>
       /\ events' = <<>>
       /\ ~threw']_vars

\* a grown tower with a block just spawned and no callback from the last
\* step: the state a reviveGame out of game-over leaves, and the state a
\* second reviveGame finds and keeps
C12_Witness ==
  /\ isGameRunning
  /\ currentBlock # NULL
  /\ Len(stack) > 1
  /\ t = 0
  /\ events = <<>>
  /\ ~threw
  /\ ENABLED (ReviveGame /\ isGameRunning)

\* C13: a placeBlock call made when the game is not running (menu or game
\* over) or when there is no moving block returns at once: no field changes,
\* nothing is added to tower, debris or particles, and neither onScoreUpdate
\* nor onGameOver is invoked.
C13_PlaceWhenNotPlayingNoOp ==
  [][((~isGameRunning \/ currentBlock = NULL) /\ PlaceBlock) =>
       /\ UNCHANGED <<stack, debris, particles, isGameRunning, score, axis,
                      direction, currentBlock, comboCounter, t>>
       /\ events' = <<>>
       /\ ~threw']_vars

\* game over, the failed block has not fallen a single frame and the
\* onGameOver of the failing call is no longer the last step's callback: a
\* placeBlock call came directly after the failure
C13_Witness ==
  /\ ~isGameRunning
  /\ currentBlock # NULL
  /\ events = <<>>
  /\ \E i \in 1..Len(debris) : debris[i].cur /\ debris[i].vy = gameOverVy
  /\ ENABLED (PlaceBlock /\ ~isGameRunning)

\* C14: whatever the state startGame is called in, it leaves score 0, combo
\* 0, axis x, direction +1, no debris, no particles, a tower of the 3 x 3
\* base block at the origin alone, one moving block of the base's extents 12
\* units before the base along x and one block height above it, the game
\* running, and it has invoked onScoreUpdate(0, 1) and nothing else.
C14_StartGameResets ==
  [][StartGame =>
       /\ score' = 0
       /\ comboCounter' = 0
       /\ axis' = "x"
       /\ direction' = 1
       /\ debris' = <<>>
       /\ particles' = <<>>
       /\ stack' = <<[x |-> 0, y |-> 0, z |-> 0, w |-> 3 * H, d |-> 3 * H]>>
       /\ currentBlock' =
            [x |-> 0 - 12 * H, y |-> 1 * V, z |-> 0, w |-> 3 * H, d |-> 3 * H]
       /\ isGameRunning'
       /\ t' = 0
       /\ events' = <<[type |-> "onScoreUpdate", score |-> 0,
                       multiplier |-> 1]>>
       /\ ~threw']_vars

\* startGame has just run (only it reports a score of 0) on an engine that
\* had been disposed of
C14_Witness ==
  /\ events = <<[type |-> "onScoreUpdate", score |-> 0, multiplier |-> 1]>>
  /\ isGameRunning
  /\ Len(stack) = 1
  /\ currentBlock # NULL
  /\ currentBlock.x = 0 - 12 * H
  /\ disposed

\* the game is over: not running, and the block whose placement failed is
\* still the engine's currentBlock
GameIsOver == ~isGameRunning /\ currentBlock # NULL /\ stack # <<>>

\* C15: reviveGame called after a game-over sets the game running again and
\* leaves score, combo counter, tower, axis and direction as they are; the
\* moving block is a new one (no debris entry is that block), 12 units
\* before the tower top along the current axis and one block height above.
C15_ReviveResumes ==
  [][(GameIsOver /\ ReviveGame) =>
       /\ isGameRunning'
       /\ UNCHANGED <<score, comboCounter, stack, axis, direction>>
       /\ currentBlock' # NULL
       /\ currentBlock'.x = IF axis = "x" THEN TowerTop.x - 12 * H
                                          ELSE TowerTop.x
       /\ currentBlock'.z = IF axis = "z" THEN TowerTop.z - 12 * H
                                          ELSE TowerTop.z
       /\ currentBlock'.y = TowerTop.y + 1 * V
       /\ \A i \in 1..Len(debris') : ~debris'[i].cur
       /\ t' = 0
       /\ events' = <<>>
       /\ ~threw']_vars

\* a block just spawned on a grown tower while the direction is -1 (startGame
\* sets +1, and a placement after the turn comes later than the player
\* waits): the game went over after the block had turned, and was revived
C15_Witness ==
  /\ isGameRunning
  /\ currentBlock # NULL
  /\ Len(stack) > 1
  /\ score > 0
  /\ t = 0
  /\ direction = 0 - 1
  /\ Along(currentBlock, axis) = Along(TowerTop, axis) - 12 * H
  /\ events = <<>>

\* C16: whenever isGameRunning is true the tower is not empty and its first
\* element is the base block (3 x 3, at the origin); the reference block of
\* placeBlock and of spawning, stack[stack.length - 1], is then a block.
C16_RunningTowerHasBase ==
  isGameRunning =>
    /\ stack # <<>>
    /\ stack[1] = [x |-> 0, y |-> 0, z |-> 0, w |-> 3 * H, d |-> 3 * H]

\* C17: when the game is not running (menu or game over) the engine has no
\* current block, and while it is running it has one.
C17_MovingBlockIffPlaying == isGameRunning <=> currentBlock # NULL

\* C18: no block has two owners (the moving-block slot and a debris entry
\* never hold the same mesh), and the moving-block slot never holds a mesh
\* that animate has pruned (one that fell below y = -30).
C18_SingleOwner ==
  /\ \A i \in 1..Len(debris) : ~debris[i].cur
  /\ currentBlock # NULL => ~(currentBlock.y < (0 - 30) * V)

\* C19: the life of every live particle lies in [0, 1] (V is 1.0).
C19_LifeInUnitInterval ==
  \A i \in 1..Len(particles) :
     0 <= particles[i].life /\ particles[i].life <= 1 * V

HasLifeLeft(p) == p.life > 0

\* every particle with its life 0.05 (a twentieth of V) lower
Decayed == [i \in 1..Len(particles) |->
              [particles[i] EXCEPT !.life = @ - (V \div 20)]]

\* C19 as amended: the life of every live particle is above 0 and below 1.5;
\* a particle starts with a life of at least 1.0, a step leaves the
\* particles alone, removes them all, adds a burst of 20 behind them, or
\* (a tick) lowers every life by 0.05 and keeps the particles with life left.
C19_LifeDecays ==
  /\ [](\A i \in 1..Len(particles) :
          0 < particles[i].life /\ 2 * particles[i].life < 3 * V)
  /\ [][\/ particles' = particles
        \/ particles' = <<>>
        \/ /\ Len(particles') = Len(particles) + 20
           /\ SubSeq(particles', 1, Len(particles)) = particles
           /\ \A i \in (Len(particles) + 1)..Len(particles') :
                 particles'[i].life >= 1 * V
        \/ /\ Tick
           /\ particles' = SelectSeq(Decayed, HasLifeLeft)]_vars

\* a particle that has decayed (its life is none of the lives a burst
\* starts with) and is still above 1.0
C19_Witness ==
  \E i \in 1..Len(particles) :
     /\ particles[i].life > 1 * V
     /\ \A l \in LifePatterns : particles[i].life \notin {l[1], l[2]}

\* C20: the combo counter counts the perfect placements in a row: startGame
\* sets it to 0, a placeBlock within the tolerance adds exactly 1, any other
\* placeBlock that acts (trimmed or failed) sets it to 0, and ticks,
\* reviveGame and placeBlock calls that return at once leave it unchanged.
\* (Each line reads: a step with another effect on the counter is not that
\* call.)
C20_ComboCounts ==
  [][/\ comboCounter' # 0 => ~StartGame
     /\ (Playing /\ InsideTolerance /\ comboCounter' # comboCounter + 1)
          => ~PlaceBlock
     /\ (Playing /\ ~InsideTolerance /\ comboCounter' # 0) => ~PlaceBlock
     /\ (~Playing /\ comboCounter' # comboCounter) => ~PlaceBlock
     /\ comboCounter' # comboCounter => ~(Tick \/ ReviveGame)]_vars

\* a trimmed placement, three perfect ones (the third scores 2), then a
\* trimmed one: the last call reported score 6 with multiplier 1 and the
\* counter is back at 0
C20_Witness ==
  /\ isGameRunning
  /\ Len(stack) = 6
  /\ events = <<[type |-> "onScoreUpdate", score |-> 6, multiplier |-> 1]>>
  /\ comboCounter = 0

\* C21: directly after dispose(), whatever the state it was called in, the
\* tower, the debris and the particles are empty and there is no moving
\* block; and no step after dispose() is a frame of animate.
C21_DisposeReleasesAndHalts ==
  /\ [][Dispose => (NoEntities' /\ disposed')]_vars
  /\ [][disposed => ~Tick]_vars

\* dispose() was called while a game was running (isGameRunning is left
\* true): nothing is left and no frame is scheduled
C21_Witness ==
  /\ disposed
  /\ isGameRunning
  /\ NoEntities
  /\ ~animating
  /\ ~ENABLED Tick

\* a placeBlock call in this state places the block: it is within the
\* tolerance or overlaps the tower top
PlacementSucceeds == InsideTolerance \/ Abs(Delta) < RefExtent

\* C22: between one startGame and the next startGame or dispose the tower is
\* append-only: a successful placement appends exactly one block, and every
\* other step (failed placement, tick, reviveGame) leaves the tower, with the
\* position and extents of each of its blocks, as it is.
C22_TowerAppendOnly ==
  [][\/ stack' = stack /\ ~(Playing /\ PlacementSucceeds /\ PlaceBlock)
     \/ /\ Len(stack') = Len(stack) + 1
        /\ SubSeq(stack', 1, Len(stack)) = stack
        /\ Playing /\ PlacementSucceeds /\ PlaceBlock
     \/ StartGame
     \/ Dispose]_vars

\* a tower of six blocks, frames after the last placement, in a game that
\* went over and was revived (the block moves in direction -1 though it has
\* not been out long enough to turn)
C22_Witness ==
  /\ isGameRunning
  /\ currentBlock # NULL
  /\ Len(stack) = 6
  /\ stack[1] = [x |-> 0, y |-> 0, z |-> 0, w |-> 3 * H, d |-> 3 * H]
  /\ direction = 0 - 1
  /\ t > 0 /\ t < 10

\* C23: the axis changes (between x and z) on every successful placement and
\* on no other step; startGame sets it to x; and whenever the tower is not
\* empty the axis is x exactly when the tower holds an odd number of blocks.
C23_AxisAlternates ==
  /\ [](stack # <<>> => (axis = "x" <=> Len(stack) % 2 = 1))
  /\ [][/\ axis' # axis =>
             \/ Playing /\ PlacementSucceeds /\ PlaceBlock
             \/ StartGame
        /\ (Playing /\ PlacementSucceeds /\ axis' = axis) => ~PlaceBlock
        /\ axis' # "x" => ~StartGame]_vars

\* the placement on a tower of four blocks has just failed: the axis is
\* still z
C23_Witness ==
  /\ ~isGameRunning
  /\ Len(stack) = 4
  /\ axis = "z"
  /\ events = <<[type |-> "onGameOver", score |-> score, multiplier |-> 0]>>

Perp(m, ax) == IF ax = "x" THEN m.d ELSE m.w

PerpAlong(m, ax) == IF ax = "x" THEN m.z ELSE m.x

\* C24: a successful placement outside the tolerance pushes the block with
\* its extent along the active axis equal to the reference extent - |delta|,
\* its other extent unchanged, its centre along the active axis at the
\* reference position + delta / 2 (its other coordinates unchanged), and so
\* with its footprint along the axis inside the reference block's.
C24_TrimGeometry ==
  [][(Playing /\ ~InsideTolerance /\ Abs(Delta) < RefExtent /\ PlaceBlock) =>
       LET b == stack'[Len(stack')]
       IN  /\ Len(stack') = Len(stack) + 1
           /\ Extent(b, axis) = RefExtent - Abs(Delta)
           /\ Perp(b, axis) = Perp(currentBlock, axis)
           /\ 2 * Along(b, axis) = 2 * Along(TowerTop, axis) + Delta
           /\ PerpAlong(b, axis) = PerpAlong(currentBlock, axis)
           /\ b.y = currentBlock.y
           /\ 2 * Along(b, axis) - Extent(b, axis)
                >= 2 * Along(TowerTop, axis) - RefExtent
           /\ 2 * Along(b, axis) + Extent(b, axis)
                <= 2 * Along(TowerTop, axis) + RefExtent]_vars

\* the first block was placed off centre and cut: it is narrower than the
\* base along x and the call has just reported score 1
C24_Witness ==
  /\ isGameRunning
  /\ Len(stack) = 2
  /\ stack[2].w < 3 * H
  /\ stack[2].w > H
  /\ stack[2].d = 3 * H
  /\ stack[2].x # 0
  /\ comboCounter = 0
  /\ events = <<[type |-> "onScoreUpdate", score |-> 1, multiplier |-> 1]>>

\* C25: a placeBlock call adds at most one debris entry and a perfect
\* placement adds none; the entry a trimmed placement adds is the part cut
\* off the moving block: its extent along the active axis and the kept
\* block's add up to the moving block's extent before the cut, its other
\* extent is the kept block's, and it touches the kept block on the side of
\* delta's sign.
C25_DebrisIsRemovedPortion ==
  [][(Playing /\ PlaceBlock) =>
       /\ Len(debris') <= Len(debris) + 1
       /\ InsideTolerance => debris' = debris
       /\ (~InsideTolerance /\ Abs(Delta) < RefExtent
             /\ Len(debris') = Len(debris) + 1) =>
            LET f == debris'[Len(debris')].mesh
                b == stack'[Len(stack')]
            IN  /\ Extent(f, axis) + Extent(b, axis)
                     = Extent(currentBlock, axis)
                /\ Perp(f, axis) = Perp(b, axis)
                /\ Delta > 0 => 2 * Along(f, axis) - Extent(f, axis)
                                  = 2 * Along(b, axis) + Extent(b, axis)
                /\ Delta < 0 => 2 * Along(f, axis) + Extent(f, axis)
                                  = 2 * Along(b, axis) - Extent(b, axis)]_vars

\* every debris entry moved by its velocity, with 0.05 (a twentieth of V)
\* less vertical velocity
Fallen == [i \in 1..Len(debris) |->
             [debris[i] EXCEPT !.mesh.x = @ + debris[i].vx,
                               !.mesh.y = @ + debris[i].vy,
                               !.mesh.z = @ + debris[i].vz,
                               !.vy = @ - (V \div 20)]]

AboveFloor(d) == ~(d.mesh.y < (0 - 30) * V)

\* C26: in every lifecycle state a tick moves each debris entry by its
\* velocity, takes 0.05 off its vertical velocity and removes exactly the
\* entries it leaves below -30; it takes 0.05 off each particle's life and
\* removes exactly the particles it leaves with life <= 0 (a life is below
\* 1.5, thirty decays); every other entry is stepped once and keeps its
\* place.  While frames keep running (until dispose, which removes them
\* itself), every debris entry and every particle is eventually removed: again
\* and again there is no debris, and again and again there is no particle.
C26_EntitiesRemoved ==
  /\ [][Tick => /\ debris' = SelectSeq(Fallen, AboveFloor)
                /\ particles' = SelectSeq(Decayed, HasLifeLeft)]_vars
  /\ [](\A i \in 1..Len(particles) :
          particles[i].life > 0 /\ particles[i].life < 30 * (V \div 20))
  /\ []<>(disposed \/ debris = <<>>)
  /\ []<>(disposed \/ particles = <<>>)

\* the game is over, the failed block is falling, and the tick that removed
\* the half of a burst that started at life 1.0 has left the other half
\* (started at 1.45) with 0.45
C26_Witness ==
  /\ ~isGameRunning
  /\ \E i \in 1..Len(debris) : debris[i].kind = "gameover"
  /\ Len(particles) = 10
  /\ \A i \in 1..Len(particles) : 20 * particles[i].life = 9 * V

\* the engine as constructed, startGame() not yet called (after a game over
\* the moving block stays referenced, after dispose() the tower is empty)
InMenu ==
  /\ ~isGameRunning
  /\ currentBlock = NULL
  /\ Len(stack) = 1
  /\ score = 0

\* C28: reviveGame() and placeBlock() called in Menu leave the engine in
\* Menu: not playing, no moving block, the tower just the base block and
\* score 0; only startGame() begins play from there.
C28_OnlyStartBeginsPlay ==
  [][InMenu => ((ReviveGame \/ PlaceBlock) => InMenu')]_vars

\* the oscillation the spec states for a tick while playing: the block moved
\* by direction * min(0.15 + 0.005 * score, 0.4) along the active axis only
SpecOscillated ==
  MoveAlong(currentBlock, axis,
            Along(currentBlock, axis) + direction * ActualSpeed(score))

\* a tick while playing moves the block as stated, reverses the direction
\* exactly when it leaves |offset| > 13, and does not reverse when the tick
\* before left |offset| > 13; the offset stays within 13 + 0.4
C29_OscillationBounded ==
  /\ [](Playing => Abs(Delta) <= oscillationLimit * H + maxSpeed)
  /\ [][Playing => (Tick =>
          /\ currentBlock' = SpecOscillated
          /\ direction' = IF Abs(Delta') > oscillationLimit * H
                          THEN 0 - direction ELSE direction
          /\ Abs(Delta) > oscillationLimit * H => direction' = direction)]_vars

\* C29: while playing the offset of the moving block from the tower top has
\* magnitude at most 13 + 0.4, each tick moves it by direction * actualSpeed
\* along the active axis only and reverses the direction exactly when it
\* leaves |offset| > 13, never in two consecutive ticks; a tick in Menu or
\* GameOver moves no moving block and leaves the direction.
C29_Oscillation ==
  /\ C29_OscillationBounded
  /\ [][~isGameRunning => (Tick => /\ currentBlock' = currentBlock
                                    /\ direction' = direction)]_vars

\* the game-over screen offers the revive button
ReviveOffered == ui.gameState = "GAME_OVER" /\ ~ui.hasRevived

EngineState ==
  <<stack, debris, particles, isGameRunning, score, axis, direction,
    currentBlock, comboCounter, t>>

====
